---- MODULE Spec2Model ----
(***************************************************************************)
(* A model of the charge_assign core: the Charger's shell normalisation    *)
(* and charge redistribution (charge/chargers.py) and the Mean and         *)
(* Histogram collectors with the histogram binning (charge/collectors.py), *)
(* the stages of charge() from the collector's call on, and the            *)
(* construction of a concrete charger.                                     *)
(*                                                                         *)
(* Charges are fixed-point numbers.  In the redistribution part the unit   *)
(* is one grain, 10^-rounding_digits; in the histogram part the unit is    *)
(* half a grain, so that values lying exactly on a bin edge exist.         *)
(* Python's float arithmetic is modelled by exact rational arithmetic and  *)
(* round() by rounding half to even, which is what round() does on a       *)
(* value that is exactly representable.                                    *)
(***************************************************************************)
EXTENDS Integers, Sequences, FiniteSets, TLC

\* ------------------------------------------------------------ bounds

MaxAtoms == 3
MaxScore == 2
MaxCharge == 1
MaxTotal == 2
MaxShell == 1
MaxNodes == 2
MaxVal == 4
MaxValues == 3
MaxBins == 2
MaxDigitsExcess == 2

\* ------------------------------------------------------------ state

VARIABLES
    \* redistribution (Charger.__add_redistributed_charges)
    rpc,                    \* position in the method
    n,                      \* number of nodes of the graph, iterated 1..n
    score,                  \* data['score'] per node
    partial_charge,         \* data['partial_charge'] per node
    total_charge,           \* the total_charge argument (the target)
    graph_score,            \* graph.graph['score']
    graph_total_charge,     \* graph.graph['total_charge']
    proportions,            \* node -> rational <<num, den>>
    total_prop,             \* rational <<num, den>>
    idx,                    \* next node of the second loop
    delta,                  \* delta of line 112, of the nodes adjusted so far
    partial_charge_redist,  \* data['partial_charge_redist'], of the nodes that have it
    total_charge_redist,    \* the local total_charge_redist
    min_score,
    min_atom,               \* the node min_atom_data refers to (NoAtom: None)
    graph_total_charge_redist,  \* graph.graph['total_charge_redist']: {} while unset
    \* collectors (MeanCollector.collect_values, HistogramCollector.collect_values)
    cpc,                    \* position in collect_values
    collector,              \* "Mean" or "Histogram"
    iacm_data_only,
    shells,                 \* the list of shell sizes, in the caller's order
    charges_iacm_shells,    \* the shell sizes that are keys of repository.charges_iacm
    charges_elem_shells,    \* the shell sizes that are keys of repository.charges_elem
    num_atoms,              \* graph.nodes() is 1..num_atoms
    atom,                   \* next node of the outer loop
    atom_keys,              \* of the node processed last: the shells at which each
                            \* ChargeSet holds that node's canonical key
    probes,                 \* of the node processed last: the lookups made, in order
    charges,                \* the dict built (charges / histograms): node -> match
    no_vals,
    err,                    \* the AssignmentError raised: <<>> while none
    unmatched,              \* history: the nodes processed whose key no admissible
                            \* ChargeSet holds at any shell of the list
    \* histogram binning (HistogramCollector.__calculate_histogram)
    hpc,                    \* position in the method
    hist_charges,           \* the charges argument, in half grains
    max_bins,
    spacing,
    num_bins,
    bin_centers,
    bin_edges,
    counts,
    hist_result,            \* what is returned: <<>> before the return
    \* Charger.charge
    kpc,                    \* position in charge()
    shell,                  \* the shell argument: [kind, val], val a sequence
    iacmize,
    arg_iacm_data_only,     \* the iacm_data_only argument
    repo_iacm_keys,         \* self._repo.charges_iacm.keys()
    charge_shells,          \* the local shells
    collect_call,           \* the arguments collect_values was called with
    \* construction of a concrete charger and the precision its stages use
    ppc,                    \* position: construction, then the stages
    charger,                \* the concrete class
    rounding_digits,        \* the rounding_digits argument of its __init__
    self_rounding_digits,   \* Charger._rounding_digits: {} while unset
    collector_rounding_digits,  \* the collector's __rounding_digits
    solver_rounding_digits, \* the rounding_digits the solver was built with
    collect_digits,         \* the digits the collector rounded means to, or
                            \* minus the exponent of the histogram grain
    redist_digits           \* the digits redistribution rounded to

rvars == <<rpc, n, score, partial_charge, total_charge, graph_score,
           graph_total_charge, proportions, total_prop, idx, delta,
           partial_charge_redist, total_charge_redist, min_score, min_atom,
           graph_total_charge_redist>>

cvars == <<cpc, collector, iacm_data_only, shells, charges_iacm_shells,
           charges_elem_shells, num_atoms, atom, atom_keys, probes, charges,
           no_vals, err, unmatched>>

hvars == <<hpc, hist_charges, max_bins, spacing, num_bins, bin_centers,
           bin_edges, counts, hist_result>>

kvars == <<kpc, shell, iacmize, arg_iacm_data_only, repo_iacm_keys,
           charge_shells, collect_call>>

pvars == <<ppc, charger, rounding_digits, self_rounding_digits,
           collector_rounding_digits, solver_rounding_digits, collect_digits,
           redist_digits>>

vars == <<rvars, cvars, hvars, kvars, pvars>>

\* min_atom_data = None (line 104); the nodes are 1..n
NoAtom == 0

\* ------------------------------------------------------------ arithmetic

Abs(x) == IF x < 0 THEN 0 - x ELSE x

\* A rational is <<num, den>> with den > 0.
RatAdd(a, b) == <<a[1] * b[2] + b[1] * a[2], a[2] * b[2]>>

RatIsZero(a) == a[1] = 0

\* Python's round(): to the nearest integer number of grains, a tie to the
\* even one.  num/den with den > 0.
Round(num, den) ==
    LET q == num \div den
        r == num - q * den
    IN  IF 2 * r < den THEN q
        ELSE IF 2 * r > den THEN q + 1
        ELSE IF q % 2 = 0 THEN q ELSE q + 1

RECURSIVE SumTo(_, _)
SumTo(f, k) == IF k = 0 THEN 0 ELSE f[k] + SumTo(f, k - 1)

RECURSIVE RatSumTo(_, _)
RatSumTo(f, k) == IF k = 0 THEN <<0, 1>> ELSE RatAdd(RatSumTo(f, k - 1), f[k])

\* ------------------------------------------------------------ solver contract

\* The solver leaves graph.graph['score'], the aggregate confidence, and
\* graph.graph['total_charge'], the sum of the raw partial charges.
SolverGraphScore(k, sc) == SumTo(sc, k)

SolverTotalCharge(k, pc) == SumTo(pc, k)

\* ------------------------------------------------------------ redistribution

Inf == MaxScore + 1

PartialCharges == {0 - MaxCharge, 0, MaxCharge}

\* line 100
TotalError(target, graph_total) == target - graph_total

\* line 108: total_score / data['score'] if data['score'] > 0 else 0
Proportion_unguarded(total_score, s) == <<total_score, IF s > 0 THEN s ELSE 1>>

Proportion_direct(total_score, s) == IF s > 0 THEN <<total_score * s, 1>> ELSE <<0, 1>>

Proportion(total_score, s) == IF s > 0 THEN <<total_score, s>> ELSE <<0, 1>>

\* line 112: round((proportions[v] * total_error) / total_prop, digits),
\* defined when total_prop is not zero
Delta(prop, total_error, tp) ==
    Round(prop[1] * total_error * tp[2], prop[2] * tp[1])

\* line 115
IsNewMin_le(s, m) == s <= m

IsNewMin(s, m) == s < m

\* lines 120-121: what is added to the minimum-score node
Residual_none(target, redist_sum) == 0

Residual(target, redist_sum) == target - redist_sum

InitRedist ==
    /\ rpc = "start"
    /\ n \in 0..MaxAtoms
    /\ score \in [1..n -> 0..MaxScore]
    /\ partial_charge \in [1..n -> PartialCharges]
    /\ total_charge \in (0 - MaxTotal)..MaxTotal
    /\ graph_score = SolverGraphScore(n, score)
    /\ graph_total_charge = SolverTotalCharge(n, partial_charge)
    /\ proportions = [v \in 1..n |-> <<0, 1>>]
    /\ total_prop = <<0, 1>>
    /\ idx = 1
    /\ delta = <<>>
    /\ partial_charge_redist = <<>>
    /\ total_charge_redist = 0
    /\ min_score = Inf
    /\ min_atom = NoAtom
    /\ graph_total_charge_redist = {}

\* lines 99-109: the first loop
RedistProportions ==
    /\ rpc = "start"
    /\ proportions' = [v \in 1..n |-> Proportion(graph_score, score[v])]
    /\ total_prop' = RatSumTo(proportions', n)
    /\ rpc' = "adjust"
    /\ UNCHANGED <<n, score, partial_charge, total_charge, graph_score,
                   graph_total_charge, idx, delta, partial_charge_redist,
                   total_charge_redist, min_score, min_atom,
                   graph_total_charge_redist>>
    /\ UNCHANGED <<cvars, hvars, kvars, pvars>>

\* lines 111-117: one iteration of the second loop
RedistAdjust ==
    /\ rpc = "adjust"
    /\ idx <= n
    /\ ~RatIsZero(total_prop)
    /\ LET d == Delta(proportions[idx],
                      TotalError(total_charge, graph_total_charge), total_prop)
           r == Round(partial_charge[idx] + d, 1)
       IN  /\ delta' = Append(delta, d)
           /\ partial_charge_redist' = Append(partial_charge_redist, r)
           /\ total_charge_redist' = total_charge_redist + r
    /\ IF IsNewMin(score[idx], min_score)
       THEN min_score' = score[idx] /\ min_atom' = idx
       ELSE UNCHANGED <<min_score, min_atom>>
    /\ idx' = idx + 1
    /\ UNCHANGED <<rpc, n, score, partial_charge, total_charge, graph_score,
                   graph_total_charge, proportions, total_prop,
                   graph_total_charge_redist>>
    /\ UNCHANGED <<cvars, hvars, kvars, pvars>>

\* line 112 with total_prop = 0: the division raises ZeroDivisionError
RedistDivideByZero ==
    /\ rpc = "adjust"
    /\ idx <= n
    /\ RatIsZero(total_prop)
    /\ rpc' = "ZeroDivisionError"
    /\ UNCHANGED <<n, score, partial_charge, total_charge, graph_score,
                   graph_total_charge, proportions, total_prop, idx, delta,
                   partial_charge_redist, total_charge_redist, min_score,
                   min_atom, graph_total_charge_redist>>
    /\ UNCHANGED <<cvars, hvars, kvars, pvars>>

\* lines 119-123: the residual goes to the node of minimum score
RedistResidual ==
    /\ rpc = "adjust"
    /\ idx > n
    /\ IF min_atom # NoAtom
       THEN LET res == Residual(total_charge, total_charge_redist)
            IN  /\ partial_charge_redist' =
                     [partial_charge_redist EXCEPT ![min_atom] = Round(@ + res, 1)]
                /\ total_charge_redist' =
                     total_charge_redist + (total_charge - total_charge_redist)
                /\ graph_total_charge_redist' = {Round(total_charge_redist', 1)}
       ELSE UNCHANGED <<partial_charge_redist, total_charge_redist,
                        graph_total_charge_redist>>
    /\ rpc' = "done"
    /\ UNCHANGED <<n, score, partial_charge, total_charge, graph_score,
                   graph_total_charge, proportions, total_prop, idx, delta,
                   min_score, min_atom>>
    /\ UNCHANGED <<cvars, hvars, kvars, pvars>>

IdleRedist ==
    /\ rpc = "idle"
    /\ n = 0
    /\ score = <<>>
    /\ partial_charge = <<>>
    /\ total_charge = 0
    /\ graph_score = 0
    /\ graph_total_charge = 0
    /\ proportions = <<>>
    /\ total_prop = <<0, 1>>
    /\ idx = 1
    /\ delta = <<>>
    /\ partial_charge_redist = <<>>
    /\ total_charge_redist = 0
    /\ min_score = Inf
    /\ min_atom = NoAtom
    /\ graph_total_charge_redist = {}

NextRedist ==
    \/ RedistProportions
    \/ RedistAdjust
    \/ RedistDivideByZero
    \/ RedistResidual

\* ------------------------------------------------------------ collectors

ShellSizes == 0..MaxShell

Range(f) == {f[i] : i \in DOMAIN f}

\* The lists of distinct shell sizes, in every order.
ShellLists ==
    {sh \in UNION {[1..k -> ShellSizes] : k \in 0..(MaxShell + 1)} :
        \A i, j \in DOMAIN sh : i # j => sh[i] # sh[j]}

\* MeanCollector.__collect, and the same two tests in
\* HistogramCollector.collect_values: the shell is a key of the ChargeSet and
\* the node's canonical key is a key of the ChargeSet at that shell.
\* canonize_neighborhood is the external oracle: of its result the model keeps
\* only whether the ChargeSet holds it (keys: the shells at which it does).
ShellInChargeSet(cs_shells, shell_size) == shell_size \in cs_shells

KeyInChargeSet(keys, shell_size) == shell_size \in keys

Collect(cs_shells, keys, shell_size) ==
    ShellInChargeSet(cs_shells, shell_size) /\ KeyInChargeSet(keys, shell_size)

\* MeanCollector.collect_values, lines 126-141: the inner loop from shells[i]
\* on.  found is <<>> when the loop ends without break.
RECURSIVE MeanShellLoop(_, _, _)
MeanShellLoop(i, keys, log) ==
    IF i > Len(shells) THEN [found |-> <<>>, probes |-> log]
    ELSE LET shell_size == shells[i]
             hit_iacm == Collect(charges_iacm_shells, keys.iacm, shell_size)
             try_elem == ~hit_iacm /\ ~iacm_data_only
             hit_elem == try_elem /\ Collect(charges_elem_shells, keys.elem, shell_size)
             log2 == log \o <<<<"iacm", shell_size>>>>
                         \o (IF try_elem THEN <<<<"elem", shell_size>>>> ELSE <<>>)
         IN  IF hit_iacm THEN [found |-> <<"iacm", shell_size>>, probes |-> log2]
             ELSE IF hit_elem THEN [found |-> <<"elem", shell_size>>, probes |-> log2]
             ELSE MeanShellLoop(i + 1, keys, log2)

\* HistogramCollector.collect_values, lines 236-255: the inner loop from
\* shells[i] on.  The plain-element branch is the elif of the test
\* "shell in charges_iacm".
RECURSIVE HistogramShellLoop(_, _, _)
HistogramShellLoop(i, keys, log) ==
    IF i > Len(shells) THEN [found |-> <<>>, probes |-> log]
    ELSE LET shell_size == shells[i]
             log_iacm == log \o <<<<"iacm", shell_size>>>>
             log_elem == log_iacm \o <<<<"elem", shell_size>>>>
         IN  IF ShellInChargeSet(charges_iacm_shells, shell_size)
             THEN IF KeyInChargeSet(keys.iacm, shell_size)
                  THEN [found |-> <<"iacm", shell_size>>, probes |-> log_iacm]
                  ELSE HistogramShellLoop(i + 1, keys, log_iacm)
             ELSE IF ~iacm_data_only
             THEN IF ShellInChargeSet(charges_elem_shells, shell_size)
                     /\ KeyInChargeSet(keys.elem, shell_size)
                  THEN [found |-> <<"elem", shell_size>>, probes |-> log_elem]
                  ELSE HistogramShellLoop(i + 1, keys, log_elem)
             ELSE HistogramShellLoop(i + 1, keys, log_iacm)

\* A ChargeSet is admissible when it is the IACM one, or the plain-element
\* one and iacm_data_only is false; keys holds the shells at which each
\* ChargeSet has the node's key.
AdmissibleMatch(keys, shell_size) ==
    \/ shell_size \in keys.iacm
    \/ ~iacm_data_only /\ shell_size \in keys.elem

\* The repository is read-only and a node's lookups read only that node's
\* keys, so the part of it that concerns a node is drawn when the node's
\* iteration starts.  Shell sizes outside the list are never looked up.
InitCollect ==
    /\ cpc = "atoms"
    /\ collector \in {"Mean", "Histogram"}
    /\ iacm_data_only \in BOOLEAN
    /\ shells \in ShellLists
    /\ charges_iacm_shells \in SUBSET Range(shells)
    /\ charges_elem_shells \in SUBSET Range(shells)
    /\ num_atoms \in 1..MaxNodes
    /\ atom = 1
    /\ atom_keys = [iacm |-> {}, elem |-> {}]
    /\ probes = <<>>
    /\ charges = <<>>
    /\ no_vals = <<>>
    /\ err = <<>>
    /\ unmatched = {}

IdleCollect ==
    /\ cpc = "idle"
    /\ collector = "Mean"
    /\ iacm_data_only = FALSE
    /\ shells = <<>>
    /\ charges_iacm_shells = {}
    /\ charges_elem_shells = {}
    /\ num_atoms = 0
    /\ atom = 1
    /\ atom_keys = [iacm |-> {}, elem |-> {}]
    /\ probes = <<>>
    /\ charges = <<>>
    /\ no_vals = <<>>
    /\ err = <<>>
    /\ unmatched = {}

\* MeanCollector.collect_values, lines 125-141: one iteration of the outer
\* loop.  charges[atom] is assigned in every iteration of the inner loop, so
\* an unresolved node is left with charges[atom] = [].
MeanCollectAtom ==
    /\ cpc = "atoms"
    /\ collector = "Mean"
    /\ atom <= num_atoms
    /\ \E ki \in SUBSET charges_iacm_shells, ke \in SUBSET charges_elem_shells :
        LET keys == [iacm |-> ki, elem |-> ke]
            r == MeanShellLoop(1, keys, <<>>)
        IN  /\ atom_keys' = keys
            /\ probes' = r.probes
            /\ charges' = IF shells = <<>> THEN charges
                           ELSE (atom :> r.found) @@ charges
            /\ no_vals' = IF r.found = <<>> THEN Append(no_vals, atom) ELSE no_vals
            /\ unmatched' = IF \E i \in DOMAIN shells : AdmissibleMatch(keys, shells[i])
                             THEN unmatched ELSE unmatched \cup {atom}
    /\ atom' = atom + 1
    /\ UNCHANGED <<cpc, collector, iacm_data_only, shells, charges_iacm_shells,
                   charges_elem_shells, num_atoms, err>>
    /\ UNCHANGED <<rvars, hvars, kvars, pvars>>

\* HistogramCollector.collect_values, lines 235-255: one iteration of the
\* outer loop.  histograms[atom] is assigned only on a match.
HistogramCollectAtom ==
    /\ cpc = "atoms"
    /\ collector = "Histogram"
    /\ atom <= num_atoms
    /\ \E ki \in SUBSET charges_iacm_shells, ke \in SUBSET charges_elem_shells :
        LET keys == [iacm |-> ki, elem |-> ke]
            r == HistogramShellLoop(1, keys, <<>>)
        IN  /\ atom_keys' = keys
            /\ probes' = r.probes
            /\ charges' = IF r.found = <<>> THEN charges
                           ELSE (atom :> r.found) @@ charges
            /\ no_vals' = IF r.found = <<>> THEN Append(no_vals, atom) ELSE no_vals
            /\ unmatched' = IF \E i \in DOMAIN shells : AdmissibleMatch(keys, shells[i])
                             THEN unmatched ELSE unmatched \cup {atom}
    /\ atom' = atom + 1
    /\ UNCHANGED <<cpc, collector, iacm_data_only, shells, charges_iacm_shells,
                   charges_elem_shells, num_atoms, err>>
    /\ UNCHANGED <<rvars, hvars, kvars, pvars>>

\* lines 143-147 and 259-266
CollectRaise ==
    /\ cpc = "atoms"
    /\ atom > num_atoms
    /\ Len(no_vals) > 0
    /\ err' = <<[atoms |-> no_vals, retry_smaller_shell |-> ~(0 \in Range(shells))]>>
    /\ cpc' = "AssignmentError"
    /\ UNCHANGED <<collector, iacm_data_only, shells, charges_iacm_shells,
                   charges_elem_shells, num_atoms, atom, atom_keys, probes,
                   charges, no_vals, unmatched>>
    /\ UNCHANGED <<rvars, hvars, kvars, pvars>>

\* lines 148 and 268
CollectReturn ==
    /\ cpc = "atoms"
    /\ atom > num_atoms
    /\ Len(no_vals) = 0
    /\ cpc' = "returned"
    /\ UNCHANGED <<collector, iacm_data_only, shells, charges_iacm_shells,
                   charges_elem_shells, num_atoms, atom, atom_keys, probes,
                   charges, no_vals, err, unmatched>>
    /\ UNCHANGED <<rvars, hvars, kvars, pvars>>

NextCollect ==
    \/ MeanCollectAtom
    \/ HistogramCollectAtom
    \/ CollectRaise
    \/ CollectReturn

\* ------------------------------------------------------------ histogram

\* line 295: grain = 10**(-rounding_digits).  The histogram part counts in
\* half grains, so that half a step is a whole number for every spacing.
grain == 2

\* ceil(a / b) for b > 0
Ceil(a, b) == 0 - ((0 - a) \div b)

\* lines 291-293: ceil((x / grain) - 0.5) * grain; up is not used
round_to_ceil(x, g, up) == Ceil(x, g) * g

round_to(x, g, up) == Ceil(2 * x - g, 2 * g) * g

\* np.arange(start, stop, step): start, start + step, ... below stop
Arange(start, stop, step) ==
    LET len == Ceil(stop - start, step)
    IN  [i \in 1..(IF len > 0 THEN len ELSE 0) |-> start + (i - 1) * step]

SeqMin(s) == CHOOSE x \in Range(s) : \A y \in Range(s) : x <= y

SeqMax(s) == CHOOSE x \in Range(s) : \A y \in Range(s) : x >= y

\* np.histogram(charges, bins=edges): bin i is [edges[i], edges[i+1]), the
\* last bin is [edges[i], edges[i+1]]; a value outside the edges is not
\* counted.  The 1e-15 added to the last edge (line 314) is below the
\* resolution of the model, where the last bin is closed already.
InBin(x, edges, i) ==
    /\ edges[i] <= x
    /\ IF i = Len(edges) - 1 THEN x <= edges[i + 1] ELSE x < edges[i + 1]

NpHistogram(a, edges) ==
    [i \in 1..(Len(edges) - 1) |->
        Cardinality({j \in DOMAIN a : InBin(a[j], edges, i)})]

\* np.count_nonzero
CountNonzero(c) == Cardinality({i \in DOMAIN c : c[i] # 0})

\* line 299: the while condition
LoopCondition_ge(nb, mb) == nb >= mb

LoopCondition(nb, mb) == nb > mb

\* lines 322-324: the entries of s at the indices of the nonzero counts
SelectNonzero_all(s, c, i) == s

RECURSIVE SelectNonzero(_, _, _)
SelectNonzero(s, c, i) ==
    IF i > Len(c) THEN <<>>
    ELSE (IF c[i] # 0 THEN <<s[i]>> ELSE <<>>) \o SelectNonzero(s, c, i + 1)

\* The loop stops the model at MaxSpacing; every value lies within MaxVal
\* half grains of zero.
MaxSpacing == MaxVal + 2

HistValues == (0 - MaxVal)..MaxVal

\* lines 295-298; max_bins is at least 1 (line 233)
InitHist ==
    /\ hpc = "loop"
    /\ hist_charges \in UNION {[1..k -> HistValues] : k \in 1..MaxValues}
    /\ max_bins \in 1..MaxBins
    /\ spacing = 0
    /\ num_bins = max_bins + 1
    /\ bin_centers = <<>>
    /\ bin_edges = <<>>
    /\ counts = <<>>
    /\ hist_result = <<>>

IdleHist ==
    /\ hpc = "idle"
    /\ hist_charges = <<>>
    /\ max_bins = 1
    /\ spacing = 0
    /\ num_bins = 0
    /\ bin_centers = <<>>
    /\ bin_edges = <<>>
    /\ counts = <<>>
    /\ hist_result = <<>>

\* lines 299-320: one iteration of the while loop
HistIterate ==
    /\ hpc = "loop"
    /\ LoopCondition(num_bins, max_bins)
    /\ spacing < MaxSpacing
    /\ spacing' = spacing + 1
    /\ LET step == grain * spacing'
           half_step == spacing'
           min_charge_bin == round_to(SeqMin(hist_charges), step, FALSE)
           max_charge_bin == round_to(SeqMax(hist_charges), step, TRUE)
           min_bin_edge == min_charge_bin - half_step
           max_bin_edge == max_charge_bin + half_step
       IN  /\ bin_centers' = Arange(min_charge_bin, max_charge_bin + half_step, step)
           /\ bin_edges' = Arange(min_bin_edge, max_bin_edge + half_step, step)
           /\ counts' = NpHistogram(hist_charges, bin_edges')
           /\ num_bins' = CountNonzero(counts')
    /\ UNCHANGED <<hpc, hist_charges, max_bins, hist_result>>
    /\ UNCHANGED <<rvars, cvars, kvars, pvars>>

\* lines 322-328
HistReturn ==
    /\ hpc = "loop"
    /\ ~LoopCondition(num_bins, max_bins)
    /\ hist_result' = <<SelectNonzero(bin_centers, counts, 1),
                        SelectNonzero(counts, counts, 1)>>
    /\ hpc' = "done"
    /\ UNCHANGED <<hist_charges, max_bins, spacing, num_bins, bin_centers,
                   bin_edges, counts>>
    /\ UNCHANGED <<rvars, cvars, kvars, pvars>>

NextHist ==
    \/ HistIterate
    \/ HistReturn

\* ------------------------------------------------------------ charge()

\* The shell argument: None, an int, or a list of ints.
ShellArgs ==
    {[kind |-> "None", val |-> <<>>]}
    \cup {[kind |-> "int", val |-> <<k>>] : k \in ShellSizes}
    \cup {[kind |-> "list", val |-> sh] : sh \in ShellLists}

\* Python's truth value of the argument: None, 0 and [] are false
Truthy(sh) ==
    CASE sh.kind = "None" -> FALSE
      [] sh.kind = "int" -> sh.val[1] # 0
      [] sh.kind = "list" -> sh.val # <<>>

\* sorted(keys, reverse=True)
RECURSIVE SortedReverse(_)
SortedReverse(keys) ==
    IF keys = {} THEN <<>>
    ELSE LET m == CHOOSE x \in keys : \A y \in keys : x >= y
         IN  <<m>> \o SortedReverse(keys \ {m})

InitCharge ==
    /\ kpc = "start"
    /\ shell \in ShellArgs
    /\ iacmize \in BOOLEAN
    /\ arg_iacm_data_only \in BOOLEAN
    /\ repo_iacm_keys \in SUBSET ShellSizes
    /\ charge_shells = <<>>
    /\ collect_call = <<>>

IdleCharge ==
    /\ kpc = "idle"
    /\ shell = [kind |-> "None", val |-> <<>>]
    /\ iacmize = FALSE
    /\ arg_iacm_data_only = FALSE
    /\ repo_iacm_keys = {}
    /\ charge_shells = <<>>
    /\ collect_call = <<>>

\* lines 65-66: if not shell
ChargeShellsFromRepository ==
    /\ kpc = "start"
    /\ ~Truthy(shell)
    /\ charge_shells' = SortedReverse(repo_iacm_keys)
    /\ kpc' = "collect"
    /\ UNCHANGED <<shell, iacmize, arg_iacm_data_only, repo_iacm_keys, collect_call>>
    /\ UNCHANGED <<rvars, cvars, hvars, pvars>>

\* lines 67-68: elif isinstance(shell, int)
ChargeShellsFromInt ==
    /\ kpc = "start"
    /\ Truthy(shell)
    /\ shell.kind = "int"
    /\ charge_shells' = <<shell.val[1]>>
    /\ kpc' = "collect"
    /\ UNCHANGED <<shell, iacmize, arg_iacm_data_only, repo_iacm_keys, collect_call>>
    /\ UNCHANGED <<rvars, cvars, hvars, pvars>>

\* lines 69-70: elif isinstance(shell, Iterable[int]), where the typing module
\* accepts an instance check against a subscripted generic
ChargeShellsFromList ==
    /\ kpc = "start"
    /\ Truthy(shell)
    /\ shell.kind = "list"
    /\ charge_shells' = shell.val
    /\ kpc' = "collect"
    /\ UNCHANGED <<shell, iacmize, arg_iacm_data_only, repo_iacm_keys, collect_call>>
    /\ UNCHANGED <<rvars, cvars, hvars, pvars>>

\* line 69, where the typing module refuses an instance check against a
\* subscripted generic (every current Python): isinstance raises TypeError
ChargeShellsTypeError ==
    /\ kpc = "start"
    /\ Truthy(shell)
    /\ shell.kind = "list"
    /\ kpc' = "TypeError"
    /\ UNCHANGED <<shell, iacmize, arg_iacm_data_only, repo_iacm_keys,
                   charge_shells, collect_call>>
    /\ UNCHANGED <<rvars, cvars, hvars, pvars>>

\* lines 74-77: the call of self._collector.collect_values
ChargeCollect ==
    /\ kpc = "collect"
    /\ collect_call' = <<[iacm_data_only |-> arg_iacm_data_only \/ iacmize,
                          shells |-> charge_shells]>>
    /\ kpc' = "collected"
    /\ UNCHANGED <<shell, iacmize, arg_iacm_data_only, repo_iacm_keys, charge_shells>>
    /\ UNCHANGED <<rvars, cvars, hvars, pvars>>

NextCharge ==
    \/ ChargeShellsFromRepository
    \/ ChargeShellsFromInt
    \/ ChargeShellsFromList
    \/ ChargeShellsTypeError
    \/ ChargeCollect

\* ------------------------------------------------------------ stages of charge()

\* Lines 77-79 call the collector, the solver and the redistribution with no
\* handler around them: a stage that ended in an exception ends charge().
StageRaised_swallowed(stage_pc) == stage_pc = "AssignmentError"

StageRaised(stage_pc) == stage_pc \in {"AssignmentError", "ZeroDivisionError"}

\* charge() at line 77, about to run collect_values on its graph.  The
\* arguments of lines 65-75 are not read again.
InitStages ==
    /\ kpc = "collect_values"
    /\ shell = [kind |-> "None", val |-> <<>>]
    /\ iacmize = FALSE
    /\ arg_iacm_data_only = FALSE
    /\ repo_iacm_keys = {}
    /\ charge_shells = <<>>
    /\ collect_call = <<>>

\* line 77: collect_values raised
ChargeCollectRaised ==
    /\ kpc = "collect_values"
    /\ cpc \in {"returned", "AssignmentError"}
    /\ StageRaised(cpc)
    /\ kpc' = "raised"
    /\ UNCHANGED <<shell, iacmize, arg_iacm_data_only, repo_iacm_keys,
                   charge_shells, collect_call>>
    /\ UNCHANGED <<rvars, cvars, hvars, pvars>>

\* line 77: collect_values returned.  Its locals are gone; the graph stays.
ChargeCollected ==
    /\ kpc = "collect_values"
    /\ cpc \in {"returned", "AssignmentError"}
    /\ ~StageRaised(cpc)
    /\ kpc' = "solve"
    /\ cpc' = "idle"
    /\ collector' = "Mean"
    /\ iacm_data_only' = FALSE
    /\ shells' = <<>>
    /\ charges_iacm_shells' = {}
    /\ charges_elem_shells' = {}
    /\ atom' = 1
    /\ atom_keys' = [iacm |-> {}, elem |-> {}]
    /\ probes' = <<>>
    /\ charges' = <<>>
    /\ unmatched' = {}
    /\ UNCHANGED <<num_atoms, no_vals, err>>
    /\ UNCHANGED <<shell, iacmize, arg_iacm_data_only, repo_iacm_keys,
                   charge_shells, collect_call>>
    /\ UNCHANGED <<rvars, hvars, pvars>>

\* line 78: the solver sets score and partial_charge on every node, and
\* score and total_charge on the graph
ChargeSolve ==
    /\ kpc = "solve"
    /\ n' = num_atoms
    /\ score' \in [1..n' -> 0..MaxScore]
    /\ partial_charge' \in [1..n' -> PartialCharges]
    /\ total_charge' \in (0 - MaxTotal)..MaxTotal
    /\ graph_score' = SolverGraphScore(n', score')
    /\ graph_total_charge' = SolverTotalCharge(n', partial_charge')
    /\ proportions' = [v \in 1..n' |-> <<0, 1>>]
    /\ rpc' = "start"
    /\ kpc' = "redistribute"
    /\ UNCHANGED <<total_prop, idx, delta, partial_charge_redist,
                   total_charge_redist, min_score, min_atom,
                   graph_total_charge_redist>>
    /\ UNCHANGED <<shell, iacmize, arg_iacm_data_only, repo_iacm_keys,
                   charge_shells, collect_call>>
    /\ UNCHANGED <<cvars, hvars, pvars>>

\* line 78: the solver raised (no solution, or out of time)
ChargeSolverRaised ==
    /\ kpc = "solve"
    /\ kpc' = "raised"
    /\ UNCHANGED <<shell, iacmize, arg_iacm_data_only, repo_iacm_keys,
                   charge_shells, collect_call>>
    /\ UNCHANGED <<rvars, cvars, hvars, pvars>>

\* line 79: __add_redistributed_charges raised
ChargeRedistRaised ==
    /\ kpc = "redistribute"
    /\ rpc \in {"done", "ZeroDivisionError"}
    /\ StageRaised(rpc)
    /\ kpc' = "raised"
    /\ UNCHANGED <<shell, iacmize, arg_iacm_data_only, repo_iacm_keys,
                   charge_shells, collect_call>>
    /\ UNCHANGED <<rvars, cvars, hvars, pvars>>

\* line 79: __add_redistributed_charges returned, and so does charge()
ChargeReturn ==
    /\ kpc = "redistribute"
    /\ rpc \in {"done", "ZeroDivisionError"}
    /\ ~StageRaised(rpc)
    /\ kpc' = "returned"
    /\ UNCHANGED <<shell, iacmize, arg_iacm_data_only, repo_iacm_keys,
                   charge_shells, collect_call>>
    /\ UNCHANGED <<rvars, cvars, hvars, pvars>>

NextStages ==
    \/ MeanCollectAtom
    \/ HistogramCollectAtom
    \/ CollectRaise
    \/ CollectReturn
    \/ ChargeCollectRaised
    \/ ChargeCollected
    \/ ChargeSolve
    \/ ChargeSolverRaised
    \/ RedistProportions
    \/ RedistAdjust
    \/ RedistDivideByZero
    \/ RedistResidual
    \/ ChargeRedistRaised
    \/ ChargeReturn

\* ------------------------------------------------------------ construction

\* charge.settings.MAX_ROUNDING_DIGITS
MAX_ROUNDING_DIGITS == 2

ChargerClasses == {"SimpleCharger", "ILPCharger", "DPCharger", "CDPCharger"}

\* lines 151, 183, 216, 249
CollectorOf(cls) ==
    IF cls = "SimpleCharger" THEN "MeanCollector" ELSE "HistogramCollector"

Min2(a, b) == IF a <= b THEN a ELSE b

Max2(a, b) == IF a >= b THEN a ELSE b

\* line 38
ClampRoundingDigits(d) == Min2(Max2(d, 0), MAX_ROUNDING_DIGITS)

InitPrecision ==
    /\ ppc = "new"
    /\ charger \in ChargerClasses
    /\ rounding_digits \in
           (0 - MaxDigitsExcess)..(MAX_ROUNDING_DIGITS + MaxDigitsExcess)
    /\ self_rounding_digits = {}
    /\ collector_rounding_digits = {}
    /\ solver_rounding_digits = {}
    /\ collect_digits = {}
    /\ redist_digits = {}

IdlePrecision ==
    /\ ppc = "idle"
    /\ charger = "SimpleCharger"
    /\ rounding_digits = 0
    /\ self_rounding_digits = {}
    /\ collector_rounding_digits = {}
    /\ solver_rounding_digits = {}
    /\ collect_digits = {}
    /\ redist_digits = {}

\* lines 150, 182, 215, 248: super().__init__, which runs line 38
ChargerBaseInit ==
    /\ ppc = "new"
    /\ self_rounding_digits' = {ClampRoundingDigits(rounding_digits)}
    /\ ppc' = "base"
    /\ UNCHANGED <<charger, rounding_digits, collector_rounding_digits,
                   solver_rounding_digits, collect_digits, redist_digits>>
    /\ UNCHANGED <<rvars, cvars, hvars, kvars>>

\* lines 151-152, 183-184, 216-217, 249-250: the collector and the solver are
\* built with the rounding_digits argument (collectors.py lines 79 and 187)
ChargerBuildStages ==
    /\ ppc = "base"
    /\ collector_rounding_digits' = {rounding_digits}
    /\ solver_rounding_digits' = {rounding_digits}
    /\ ppc' = "constructed"
    /\ UNCHANGED <<charger, rounding_digits, self_rounding_digits,
                   collect_digits, redist_digits>>
    /\ UNCHANGED <<rvars, cvars, hvars, kvars>>

\* collectors.py line 163, the MeanCollector: round(mean, __rounding_digits)
PrecisionMeanCollect ==
    /\ ppc = "constructed"
    /\ CollectorOf(charger) = "MeanCollector"
    /\ collect_digits' = collector_rounding_digits
    /\ ppc' = "collected"
    /\ UNCHANGED <<charger, rounding_digits, self_rounding_digits,
                   collector_rounding_digits, solver_rounding_digits,
                   redist_digits>>
    /\ UNCHANGED <<rvars, cvars, hvars, kvars>>

\* collectors.py line 295, the HistogramCollector:
\* grain = 10**(-__rounding_digits), a grain of __rounding_digits digits
PrecisionHistogramCollect ==
    /\ ppc = "constructed"
    /\ CollectorOf(charger) = "HistogramCollector"
    /\ collect_digits' = collector_rounding_digits
    /\ ppc' = "collected"
    /\ UNCHANGED <<charger, rounding_digits, self_rounding_digits,
                   collector_rounding_digits, solver_rounding_digits,
                   redist_digits>>
    /\ UNCHANGED <<rvars, cvars, hvars, kvars>>

\* lines 112-123: redistribution rounds to self._rounding_digits
PrecisionRedistribute ==
    /\ ppc = "collected"
    /\ redist_digits' = self_rounding_digits
    /\ ppc' = "redistributed"
    /\ UNCHANGED <<charger, rounding_digits, self_rounding_digits,
                   collector_rounding_digits, solver_rounding_digits,
                   collect_digits>>
    /\ UNCHANGED <<rvars, cvars, hvars, kvars>>

NextPrecision ==
    \/ ChargerBaseInit
    \/ ChargerBuildStages
    \/ PrecisionMeanCollect
    \/ PrecisionHistogramCollect
    \/ PrecisionRedistribute

\* ------------------------------------------------------------ specifications

RedistInit == InitRedist /\ IdleCollect /\ IdleHist /\ IdleCharge /\ IdlePrecision

CollectInit == InitCollect /\ IdleRedist /\ IdleHist /\ IdleCharge /\ IdlePrecision

HistInit == InitHist /\ IdleRedist /\ IdleCollect /\ IdleCharge /\ IdlePrecision

ChargeInit == InitCharge /\ IdleRedist /\ IdleCollect /\ IdleHist /\ IdlePrecision

StagesInit == InitStages /\ InitCollect /\ IdleRedist /\ IdleHist /\ IdlePrecision

PrecisionInit == InitPrecision /\ IdleRedist /\ IdleCollect /\ IdleHist /\ IdleCharge

SpecRedist == RedistInit /\ [][NextRedist]_vars

SpecCollect == CollectInit /\ [][NextCollect]_vars

SpecHist == HistInit /\ [][NextHist]_vars

\* The loop is sequential code: an iteration that can run does run.
SpecHistFair == SpecHist /\ WF_vars(NextHist)

SpecCharge == ChargeInit /\ [][NextCharge]_vars

SpecStages == StagesInit /\ [][NextStages]_vars

SpecPrecision == PrecisionInit /\ [][NextPrecision]_vars

\* ------------------------------------------------------------ claims

\* C1: once redistribution has completed on a graph with at least one node,
\* one of them with a positive score, the partial_charge_redist of all nodes
\* sum to the target total charge and the graph's total_charge_redist is
\* that target.
C1_RedistExact ==
    (rpc = "done" /\ n >= 1 /\ \E v \in 1..n : score[v] > 0)
        => /\ SumTo(partial_charge_redist, n) = total_charge
           /\ graph_total_charge_redist = {total_charge}

\* C1 witness: a completed run of two or more nodes in which the per-node
\* rounding left a residual that the last step had to add.
C1_Witness ==
    /\ rpc = "done"
    /\ n >= 2
    /\ \E v \in 1..n : score[v] > 0
    /\ \E v \in 1..n : partial_charge_redist[v] # partial_charge[v] + delta[v]

\* C2: with a non-empty graph whose nodes all have score 0, redistribution
\* ends in the dedicated failure DegenerateConfidence, not in an unguarded
\* division by zero.
C2_DegenerateGuarded ==
    (n >= 1 /\ (\A v \in 1..n : score[v] = 0) /\ rpc \notin {"start", "adjust"})
        => rpc = "DegenerateConfidence"

\* C3: for the node processed last, every plain-element lookup directly
\* follows the IACM lookup at the same shell, and every IACM lookup that
\* misses (shell absent, or shell present without the node's key) while
\* iacm_data_only is false is directly followed by the plain-element lookup
\* at that shell.
C3_ElemProbedAfterIacmMiss ==
    atom > 1 =>
        /\ \A j \in DOMAIN probes :
              probes[j][1] = "elem"
                  => j > 1 /\ probes[j - 1] = <<"iacm", probes[j][2]>>
        /\ \A j \in DOMAIN probes :
              (/\ probes[j][1] = "iacm"
               /\ ~Collect(charges_iacm_shells, atom_keys.iacm, probes[j][2])
               /\ ~iacm_data_only)
                  => j < Len(probes) /\ probes[j + 1] = <<"elem", probes[j][2]>>

\* The index in shells of the first shell at which an admissible ChargeSet
\* holds the key of the node processed last; 0 when there is none.
FirstMatchIndex ==
    LET hits == {i \in DOMAIN shells : AdmissibleMatch(atom_keys, shells[i])}
    IN  IF hits = {} THEN 0 ELSE CHOOSE i \in hits : \A k \in hits : i <= k

\* C4: the node processed last is resolved from the first shell of the list
\* at which an admissible ChargeSet holds its key: it has that shell's match,
\* is not recorded unresolved, and no later shell was looked up.
C4_FirstMatchingShell ==
    (atom > 1 /\ FirstMatchIndex > 0) =>
        LET a == atom - 1
            i == FirstMatchIndex
        IN  /\ a \in DOMAIN charges
            /\ charges[a] # <<>>
            /\ charges[a][2] = shells[i]
            /\ a \notin Range(no_vals)
            /\ \A j \in DOMAIN probes : \E k \in 1..i : probes[j][2] = shells[k]

\* C5: collect_values raises AssignmentError exactly when some node has no
\* match at any shell of the list, only after every node was processed,
\* naming exactly the nodes without a match, and returns nothing then.
C5_AssignmentErrorIffUnmatched ==
    /\ cpc = "AssignmentError" => atom > num_atoms
    /\ cpc \in {"AssignmentError", "returned"}
          => (cpc = "AssignmentError" <=> unmatched # {})
    /\ cpc = "AssignmentError" => Range(err[1].atoms) = unmatched
    /\ cpc = "returned" => err = <<>>

\* C6: the histogram returned has at most max_bins bins, each with a count
\* greater than 0.
C6_AtMostMaxBins ==
    hpc = "done" =>
        /\ Len(hist_result[1]) <= max_bins
        /\ Len(hist_result[2]) = Len(hist_result[1])
        /\ \A i \in DOMAIN hist_result[2] : hist_result[2][i] > 0

\* C6 witness: a histogram returned after the bins had to be widened, with
\* an empty bin left out.
C6_Witness ==
    /\ hpc = "done"
    /\ spacing >= 2
    /\ Len(hist_result[1]) = max_bins
    /\ Len(counts) > Len(hist_result[1])

\* C7: the returned counts sum to the number of input values, and every
\* input value lies within half a step of a returned bin center.
C7_EveryValueCounted ==
    hpc = "done" =>
        /\ SumTo(hist_result[2], Len(hist_result[2])) = Len(hist_charges)
        /\ \A j \in DOMAIN hist_charges :
              \E i \in DOMAIN hist_result[1] :
                  Abs(hist_charges[j] - hist_result[1][i]) <= spacing

\* C7 witness: a histogram returned for values of which the largest lies
\* exactly on the last bin edge and the smallest exactly on an inner edge.
C7_Witness ==
    /\ hpc = "done"
    /\ Len(bin_edges) >= 3
    /\ SeqMax(hist_charges) = bin_edges[Len(bin_edges)]
    /\ SeqMin(hist_charges) = bin_edges[2]

\* C8: the bin-width search terminates: the histogram is eventually returned.
C8_Terminates == <>(hpc = "done")

\* C8 witness: the search ended, after more than one iteration, on values of
\* both signs with max_bins = 1.
C8_Witness ==
    /\ hpc = "done"
    /\ spacing >= 2
    /\ max_bins = 1
    /\ SeqMin(hist_charges) < 0
    /\ SeqMax(hist_charges) > 0

\* C9: charge() calls the collector with [n] for an integer shell n (0
\* included), with the list as given for a list, and with the repository's
\* IACM shell sizes in descending order only when shell is unset.
C9_ShellNormalised ==
    kpc \in {"collected", "TypeError"} =>
        /\ kpc = "collected"
        /\ shell.kind = "int" => collect_call[1].shells = shell.val
        /\ shell.kind = "list" => collect_call[1].shells = shell.val
        /\ shell.kind = "None"
              => collect_call[1].shells = SortedReverse(repo_iacm_keys)

\* C10 as stated: of two nodes with equal raw partial_charge, the one with
\* the lower score (0 included) gets a delta of at least the magnitude of
\* the other's.
C10_LowerScoreLargerDelta ==
    \A a, b \in 1..Len(delta) :
        (partial_charge[a] = partial_charge[b] /\ score[a] < score[b])
            => Abs(delta[a]) >= Abs(delta[b])

\* C10 amended: of two nodes with equal raw partial_charge and positive
\* scores, the one with the lower score gets a delta of at least the
\* magnitude of the other's.
C10_PositiveLowerScoreLargerDelta ==
    \A a, b \in 1..Len(delta) :
        (partial_charge[a] = partial_charge[b] /\ 0 < score[a] /\ score[a] < score[b])
            => Abs(delta[a]) >= Abs(delta[b])

\* C10 witness: two such nodes, the delta of the lower-scored one strictly
\* larger in magnitude.
C10_Witness ==
    \E a, b \in 1..Len(delta) :
        /\ partial_charge[a] = partial_charge[b]
        /\ 0 < score[a] /\ score[a] < score[b]
        /\ Abs(delta[a]) > Abs(delta[b])

\* The first node, in iteration order, among those of minimum score.
FirstMinScoreAtom ==
    CHOOSE v \in 1..n :
        /\ \A w \in 1..n : score[v] <= score[w]
        /\ \A w \in 1..(v - 1) : score[w] > score[v]

\* C11 as stated: once redistribution has completed on a graph with a node
\* of positive score, every node of score 0 has partial_charge_redist equal
\* to its raw partial_charge.
C11_ZeroScoreNotAdjusted ==
    (rpc = "done" /\ \E w \in 1..n : score[w] > 0)
        => \A v \in 1..n :
              score[v] = 0 => partial_charge_redist[v] = Round(partial_charge[v], 1)

\* C11 amended: every node of score 0 gets delta 0, and ends with
\* partial_charge_redist equal to its raw partial_charge unless it is the
\* first node of minimum score, which ends with its raw partial_charge plus
\* the residual.
C11_ZeroScoreOnlyResidual ==
    (rpc = "done" /\ \E w \in 1..n : score[w] > 0)
        => \A v \in 1..n :
              score[v] = 0 =>
                  /\ delta[v] = 0
                  /\ partial_charge_redist[v] =
                        IF v = FirstMinScoreAtom
                        THEN Round(partial_charge[v], 1) + total_charge
                                 - SumTo([w \in 1..n |-> partial_charge[w] + delta[w]], n)
                        ELSE Round(partial_charge[v], 1)

\* C11 witness: a completed run with a node of score 0 that is not node 1,
\* nodes of positive score, and a residual that is not 0, so that the node
\* of score 0 ends away from its raw partial_charge.
C11_Witness ==
    /\ rpc = "done"
    /\ \E w \in 1..n : score[w] > 0
    /\ \E v \in 2..n :
          /\ score[v] = 0
          /\ delta[v] = 0
          /\ partial_charge_redist[v] # Round(partial_charge[v], 1)

\* C14: the residual is absorbed by exactly one node, the first in iteration
\* order among those of minimum score; every other node ends with
\* round(partial_charge + delta) of the per-node step.
C14_ResidualToFirstMinimum ==
    (rpc = "done" /\ n >= 1) =>
        /\ min_atom = FirstMinScoreAtom
        /\ \A v \in 1..n :
              partial_charge_redist[v] =
                  Round(partial_charge[v] + delta[v], 1)
                  + (IF v = FirstMinScoreAtom
                     THEN total_charge
                          - SumTo([w \in 1..n |-> Round(partial_charge[w] + delta[w], 1)], n)
                     ELSE 0)

\* C14 witness: a completed run in which two nodes share the minimum score,
\* the first of them is not node 1, and the residual is not 0.
C14_Witness ==
    /\ rpc = "done"
    /\ n >= 3
    /\ min_atom = 2
    /\ score[3] = score[2]
    /\ partial_charge_redist[2] # partial_charge[2] + delta[2]

\* C13 as stated: in every iteration of the bin-width search, the first
\* centre is the multiple of step nearest to min(values), the lower one on
\* an exact tie, and the last centre is the multiple of step nearest to
\* max(values), the upper one on an exact tie.
C13_MinTiesDownMaxTiesUp ==
    LET step == grain * spacing
        Multiples == {k * step : k \in (0 - MaxVal)..MaxVal}
        Nearest(x) == {m \in Multiples : 2 * Abs(x - m) <= step}
        lo == SeqMin(hist_charges)
        hi == SeqMax(hist_charges)
    IN  (hpc = "loop" /\ spacing >= 1) =>
            /\ bin_centers[1] \in Nearest(lo)
            /\ \A m \in Nearest(lo) : bin_centers[1] <= m
            /\ bin_centers[Len(bin_centers)] \in Nearest(hi)
            /\ \A m \in Nearest(hi) : bin_centers[Len(bin_centers)] >= m

\* C12: charge() returns only with partial_charge and partial_charge_redist
\* set on every node of the graph, and never returns from a run in which the
\* collector left a node unresolved or the redistribution ended in an
\* exception.
C12_ReturnsOnlyComplete ==
    /\ kpc = "returned" =>
           \A v \in 1..num_atoms :
               v \in DOMAIN partial_charge /\ v \in DOMAIN partial_charge_redist
    /\ (Len(no_vals) > 0 \/ rpc = "ZeroDivisionError") => kpc # "returned"

\* C12 witness: charge() has returned on a graph of two or more nodes, one
\* of them of score 0, all with both values.
C12_Witness ==
    /\ kpc = "returned"
    /\ num_atoms >= 2
    /\ \E v \in 1..num_atoms : score[v] = 0
    /\ Len(partial_charge) = num_atoms
    /\ Len(partial_charge_redist) = num_atoms

\* C15 as stated: whatever integer rounding_digits a concrete charger is
\* built with, the digits the collector works with and the digits
\* redistribution rounds to are the same value of the valid range.
C15_SameClampedPrecision ==
    ppc = "redistributed" =>
        /\ collect_digits = redist_digits
        /\ \A d \in collect_digits \cup redist_digits :
               d >= 0 /\ d <= MAX_ROUNDING_DIGITS

====
